---- MODULE Spec2Model ----
(***************************************************************************)
(* Model of parse_docstring (fastmcp/utilities/docstring_parser.py).       *)
(*                                                                         *)
(* A text is a sequence of one-character strings.  The parser is run as a  *)
(* state machine: Begin (lines 17-30), one ScanLine per iteration of the   *)
(* for loop (lines 36-115) and FinalCapture (lines 118-129).               *)
(***************************************************************************)
EXTENDS Integers, Sequences, FiniteSets, TLC

\* ------------------------------------------------------------------ values

\* Python None, for a text-valued variable (no character is "<None>").
None == <<"<None>">>

\* Python truthiness of a str-or-None value: None and "" are falsy.
Truthy(v) == v # None /\ v # <<>>

\* ------------------------------------------------------------- characters

WhiteSpace == {" ", "\t", "\n", "\r", "\f"}

LineBreaks == {"\n", "\r", "\f"}

LowerLetters ==
  {"a","b","c","d","e","f","g","h","i","j","k","l","m",
   "n","o","p","q","r","s","t","u","v","w","x","y","z"}

UpperLetters ==
  {"A","B","C","D","E","F","G","H","I","J","K","L","M",
   "N","O","P","Q","R","S","T","U","V","W","X","Y","Z"}

Digits == {"0","1","2","3","4","5","6","7","8","9"}

\* regex \w
IsWordChar(c) == c \in LowerLetters \cup UpperLetters \cup Digits \cup {"_"}

\* regex \s and the characters str.strip() removes
IsSpace(c) == c \in WhiteSpace

ToLowerChar(c) ==
  CASE c = "A" -> "a" [] c = "B" -> "b" [] c = "C" -> "c" [] c = "D" -> "d"
    [] c = "E" -> "e" [] c = "F" -> "f" [] c = "G" -> "g" [] c = "H" -> "h"
    [] c = "I" -> "i" [] c = "J" -> "j" [] c = "K" -> "k" [] c = "L" -> "l"
    [] c = "M" -> "m" [] c = "N" -> "n" [] c = "O" -> "o" [] c = "P" -> "p"
    [] c = "Q" -> "q" [] c = "R" -> "r" [] c = "S" -> "s" [] c = "T" -> "t"
    [] c = "U" -> "u" [] c = "V" -> "v" [] c = "W" -> "w" [] c = "X" -> "x"
    [] c = "Y" -> "y" [] c = "Z" -> "z" [] OTHER -> c

\* ------------------------------------------------------------ str methods

\* str.lower()
Lower(s) == [i \in 1..Len(s) |-> ToLowerChar(s[i])]

\* str.startswith(p)
StartsWith(s, p) == Len(s) >= Len(p) /\ SubSeq(s, 1, Len(p)) = p

\* str.startswith((p1, p2, ...))
StartsWithAny(s, ps) == \E p \in ps : StartsWith(s, p)

\* the least member of a non-empty set of integers
Least(S) == CHOOSE i \in S : \A j \in S : i <= j

\* the greatest member of a non-empty set of integers
Greatest(S) == CHOOSE i \in S : \A j \in S : j <= i

\* the positions of s that hold no whitespace
NonSpaces(s) == {i \in 1..Len(s) : ~IsSpace(s[i])}

\* str.lstrip()
LStrip(s) ==
  IF NonSpaces(s) = {} THEN <<>> ELSE SubSeq(s, Least(NonSpaces(s)), Len(s))

\* str.rstrip()
RStrip(s) ==
  IF NonSpaces(s) = {} THEN <<>> ELSE SubSeq(s, 1, Greatest(NonSpaces(s)))

\* str.strip()
Strip(s) == RStrip(LStrip(s))

RECURSIVE SplitLines(_)
\* str.splitlines(): the line breaks are dropped, "\r\n" is one break, and a
\* final break opens no empty last line.
SplitLines(s) ==
  LET breaks == {i \in 1..Len(s) : s[i] \in LineBreaks}
      i == Least(breaks)
      crlf == s[i] = "\r" /\ i < Len(s) /\ s[i + 1] = "\n"
  IN IF s = <<>> THEN <<>>
     ELSE IF breaks = {} THEN <<s>>
     ELSE <<SubSeq(s, 1, i - 1)>>
          \o SplitLines(SubSeq(s, (IF crlf THEN i + 2 ELSE i + 1), Len(s)))

RECURSIVE JoinWith(_, _)
\* sep.join(parts)
JoinWith(parts, sep) ==
  IF parts = <<>> THEN <<>>
  ELSE IF Len(parts) = 1 THEN parts[1]
  ELSE parts[1] \o sep \o JoinWith(Tail(parts), sep)

\* lines 75-79 joining with "" instead of " "
JoinDesc_NoSeparator(desc_lines) == Strip(JoinWith(desc_lines, <<>>))

\* " ".join(current_desc_lines).strip()
JoinDesc(desc_lines) == Strip(JoinWith(desc_lines, <<" ">>))

\* ------------------------------------------------------------------- dict

\* A dict is the sequence of its <<key, value>> items in insertion order.
DictKeys(d) == {d[i][1] : i \in 1..Len(d)}

DictGet(d, k) == d[CHOOSE i \in 1..Len(d) : d[i][1] = k][2]

\* d[k] = v as an update that keeps the old text in front of the new one
DictSet_Merge(d, k, v) ==
  IF k \in {d[i][1] : i \in 1..Len(d)}
  THEN [i \in 1..Len(d) |->
          IF d[i][1] = k THEN <<k, d[i][2] \o <<" ">> \o v>> ELSE d[i]]
  ELSE Append(d, <<k, v>>)

\* d[k] = v: an existing key keeps its position and takes the new value.
DictSet(d, k, v) ==
  IF k \in DictKeys(d)
  THEN [i \in 1..Len(d) |-> IF d[i][1] = k THEN <<k, v>> ELSE d[i]]
  ELSE Append(d, <<k, v>>)

\* the record returned for absent or blank input (lines 18 and 22)
EmptyResult == [summary |-> <<>>, args |-> <<>>, returns |-> <<>>, raises |-> <<>>]

\* ------------------------------------------------------- section headers

\* ("args:", "arguments:", "parameters:"), line 47
ArgsHeaders ==
  { <<"a","r","g","s",":">>,
    <<"a","r","g","u","m","e","n","t","s",":">>,
    <<"p","a","r","a","m","e","t","e","r","s",":">> }

\* ("returns:", "yields:"), line 50
ReturnsHeaders ==
  { <<"r","e","t","u","r","n","s",":">>,
    <<"y","i","e","l","d","s",":">> }

\* ("raises ", "raises:", "errors:", "exceptions:"), line 54
RaisesPrefixes ==
  { <<"r","a","i","s","e","s"," ">>,
    <<"r","a","i","s","e","s",":">>,
    <<"e","r","r","o","r","s",":">>,
    <<"e","x","c","e","p","t","i","o","n","s",":">> }

\* ("attributes:", "see also:", "example:", "examples:", "notes:"), line 57
OtherPrefixes ==
  { <<"a","t","t","r","i","b","u","t","e","s",":">>,
    <<"s","e","e"," ","a","l","s","o",":">>,
    <<"e","x","a","m","p","l","e",":">>,
    <<"e","x","a","m","p","l","e","s",":">>,
    <<"n","o","t","e","s",":">> }

\* lines 47-60 without the branch of line 57
NewSectionType_NoOther(section_line) ==
  IF section_line \in ArgsHeaders THEN "args"
  ELSE IF section_line \in ReturnsHeaders THEN "returns"
  ELSE IF StartsWithAny(section_line, RaisesPrefixes) THEN "raises"
  ELSE "None"

\* lines 47-60 with the test of line 54 made a membership test
NewSectionType_ExactRaises(section_line) ==
  IF section_line \in ArgsHeaders THEN "args"
  ELSE IF section_line \in ReturnsHeaders THEN "returns"
  ELSE IF section_line \in RaisesPrefixes THEN "raises"
  ELSE IF StartsWithAny(section_line, OtherPrefixes) THEN "other"
  ELSE "None"

\* lines 47-60 with the tests of lines 47 and 50 made prefix tests
NewSectionType_PrefixArgs(section_line) ==
  IF StartsWithAny(section_line, ArgsHeaders) THEN "args"
  ELSE IF StartsWithAny(section_line, ReturnsHeaders) THEN "returns"
  ELSE IF StartsWithAny(section_line, RaisesPrefixes) THEN "raises"
  ELSE IF StartsWithAny(section_line, OtherPrefixes) THEN "other"
  ELSE "None"

\* new_section_type for the lowercased trimmed line; "None" is Python None,
\* and is_new_section_header is new_section_type # "None".
NewSectionType(section_line) ==
  IF section_line \in ArgsHeaders THEN "args"
  ELSE IF section_line \in ReturnsHeaders THEN "returns"
  ELSE IF StartsWithAny(section_line, RaisesPrefixes) THEN "raises"
  ELSE IF StartsWithAny(section_line, OtherPrefixes) THEN "other"
  ELSE "None"

IsHeaderLine(line) == NewSectionType(Lower(Strip(line))) # "None"

\* ------------------------------------------------------------ key_pattern

\* \s* from position i: the first position at or after i that holds no
\* whitespace (Len + 1 at the end of the line)
SkipSpaces(s, i) ==
  Least({j \in i..Len(s) : ~IsSpace(s[j])} \cup {Len(s) + 1})

\* [\w\.]+ from position i: the position after the longest run
SkipIdent(s, i) ==
  Least({j \in i..Len(s) : ~(IsWordChar(s[j]) \/ s[j] = ".")} \cup {Len(s) + 1})

\* (?:\(.*\))?: from position c. The group is tried first and its .* is
\* greedy: it ends at the last ")" of the line that a ":" follows. Without
\* the group the ":" has to stand at c. 0 when neither matches, else the
\* position of the ":".
ColonAfterType(s, c) ==
  LET closers == {j \in (c + 1)..(Len(s) - 1) : s[j] = ")" /\ s[j + 1] = ":"}
  IN IF c <= Len(s) /\ s[c] = "(" /\ closers # {}
     THEN Greatest(closers) + 1
     ELSE IF c <= Len(s) /\ s[c] = ":" THEN c
     ELSE 0

\* key_pattern.match(line): ^\s*([\w\.]+)\s*(?:\(.*\))?:\s*(.*)
\* group1 is the identifier, group2 the rest of the line after ":" and \s*.
KeyPatternMatch(line) ==
  LET a == SkipSpaces(line, 1)
      b == SkipIdent(line, a)
      c == SkipSpaces(line, b)
      colon == IF b > a THEN ColonAfterType(line, c) ELSE 0
      d == SkipSpaces(line, colon + 1)
  IN IF colon = 0
     THEN [matched |-> FALSE, group1 |-> <<>>, group2 |-> <<>>]
     ELSE [matched |-> TRUE,
           group1 |-> SubSeq(line, a, b - 1),
           group2 |-> SubSeq(line, d, Len(line))]

\* ------------------------------------------------------------ loop body

\* The locals of parse_docstring the loop reads and writes, as one record.
LoopState(a, r, x, sec, key, desc) ==
  [args |-> a, returns |-> r, raises |-> x, current_section |-> sec,
   current_key |-> key, current_desc_lines |-> desc]

\* line.startswith(' ')
StartsWithSpace(line) == StartsWith(line, <<" ">>)

\* lines 64-70 without the two indentation tests: only a header finalizes
FinalizePrevious_HeadersOnly(st, line, new_section_type) ==
  new_section_type # "None"

\* finalize_previous (lines 64-70)
FinalizePrevious(st, line, new_section_type) ==
  IF new_section_type # "None" THEN TRUE
  ELSE IF st.current_section \in {"args", "raises"} /\ Truthy(st.current_key)
          /\ ~StartsWithSpace(line) THEN TRUE
  ELSE IF st.current_section = "returns" /\ st.current_desc_lines # <<>>
          /\ ~StartsWithSpace(line) THEN TRUE
  ELSE FALSE

\* lines 74-79 with the raises item written into args (line 77 as line 75)
CommitPrevious_AllIntoArgs(st) ==
  IF st.current_section = "args" /\ Truthy(st.current_key)
  THEN [st EXCEPT !.args = DictSet(@, st.current_key, JoinDesc(st.current_desc_lines))]
  ELSE IF st.current_section = "raises" /\ Truthy(st.current_key)
  THEN [st EXCEPT !.args = DictSet(@, st.current_key, JoinDesc(st.current_desc_lines))]
  ELSE IF st.current_section = "returns"
  THEN [st EXCEPT !.returns = JoinDesc(st.current_desc_lines)]
  ELSE st

\* the commit of lines 74-79
CommitPrevious(st) ==
  IF st.current_section = "args" /\ Truthy(st.current_key)
  THEN [st EXCEPT !.args = DictSet(@, st.current_key, JoinDesc(st.current_desc_lines))]
  ELSE IF st.current_section = "raises" /\ Truthy(st.current_key)
  THEN [st EXCEPT !.raises = DictSet(@, st.current_key, JoinDesc(st.current_desc_lines))]
  ELSE IF st.current_section = "returns"
  THEN [st EXCEPT !.returns = JoinDesc(st.current_desc_lines)]
  ELSE st

\* the reset of lines 82-84 without line 82
ResetState_KeepKey(st, new_section_type) ==
  [st EXCEPT !.current_desc_lines = <<>>,
             !.current_section = new_section_type]

\* lines 82-84 with the section kept when the line is no header
ResetState_KeepSection(st, new_section_type) ==
  [st EXCEPT !.current_key = None,
             !.current_desc_lines = <<>>,
             !.current_section =
               IF new_section_type = "None" THEN @ ELSE new_section_type]

\* the reset of lines 82-84
ResetState(st, new_section_type) ==
  [st EXCEPT !.current_key = None,
             !.current_desc_lines = <<>>,
             !.current_section = new_section_type]

\* the commit in front of a new key of the same section (lines 98-103)
CommitBeforeNewKey(st) ==
  IF Truthy(st.current_key)
  THEN IF st.current_section = "args"
       THEN [st EXCEPT !.args = DictSet(@, st.current_key, JoinDesc(st.current_desc_lines))]
       ELSE IF st.current_section = "raises"
       THEN [st EXCEPT !.raises = DictSet(@, st.current_key, JoinDesc(st.current_desc_lines))]
       ELSE st
  ELSE st

\* lines 94-115 with the continuation test of line 108 put in front of the
\* key pattern
ProcessContent_ContinuationFirst(st, line) ==
  IF st.current_section = "args" \/ st.current_section = "raises"
  THEN LET match == KeyPatternMatch(line)
       IN IF Truthy(st.current_key) /\ StartsWithSpace(line)
          THEN [st EXCEPT !.current_desc_lines = Append(@, Strip(line))]
          ELSE IF match.matched
          THEN [CommitBeforeNewKey(st) EXCEPT
                  !.current_key = match.group1,
                  !.current_desc_lines = <<Strip(match.group2)>>]
          ELSE st
  ELSE IF st.current_section = "returns"
  THEN IF st.current_desc_lines = <<>> \/ StartsWithSpace(line)
       THEN [st EXCEPT !.current_desc_lines = Append(@, Strip(line))]
       ELSE st
  ELSE st

\* "Process Line Content" (lines 94-115)
ProcessContent(st, line) ==
  IF st.current_section = "args" \/ st.current_section = "raises"
  THEN LET match == KeyPatternMatch(line)
       IN IF match.matched
          THEN [CommitBeforeNewKey(st) EXCEPT
                  !.current_key = match.group1,
                  !.current_desc_lines = <<Strip(match.group2)>>]
          ELSE IF Truthy(st.current_key) /\ StartsWithSpace(line)
          THEN [st EXCEPT !.current_desc_lines = Append(@, Strip(line))]
          ELSE st
  ELSE IF st.current_section = "returns"
  THEN IF st.current_desc_lines = <<>> \/ StartsWithSpace(line)
       THEN [st EXCEPT !.current_desc_lines = Append(@, Strip(line))]
       ELSE st
  ELSE st

\* the for loop's iteration without the skip of blank lines (lines 39-40)
ScanStep_NoBlankSkip(st, line) ==
  LET stripped_line == Strip(line)
      new_section_type == NewSectionType(Lower(stripped_line))
      finalize_previous == FinalizePrevious(st, line, new_section_type)
      st1 == IF finalize_previous
             THEN ResetState(CommitPrevious(st), new_section_type)
             ELSE st
  IN IF finalize_previous /\ new_section_type # "None" THEN st1
     ELSE ProcessContent(st1, line)

\* one iteration of the for loop (lines 36-115)
ScanStep(st, line) ==
  LET stripped_line == Strip(line)
      new_section_type == NewSectionType(Lower(stripped_line))
      finalize_previous == FinalizePrevious(st, line, new_section_type)
      st1 == IF finalize_previous
             THEN ResetState(CommitPrevious(st), new_section_type)
             ELSE st
  IN IF stripped_line = <<>> THEN st
     ELSE IF finalize_previous /\ new_section_type # "None" THEN st1
     ELSE ProcessContent(st1, line)

\* lines 119-127 without the capture of the pending key (lines 119-124)
FinalCaptured_ReturnsOnly(st) ==
  IF Truthy(st.current_key) THEN st
  ELSE IF st.current_section = "returns" /\ st.returns = <<>>
  THEN [st EXCEPT !.returns = JoinDesc(st.current_desc_lines)]
  ELSE st

\* lines 119-127 without the capture of returns (lines 126-127)
FinalCaptured_KeysOnly(st) ==
  IF Truthy(st.current_key)
  THEN IF st.current_section = "args"
       THEN [st EXCEPT !.args = DictSet(@, st.current_key, JoinDesc(st.current_desc_lines))]
       ELSE IF st.current_section = "raises"
       THEN [st EXCEPT !.raises = DictSet(@, st.current_key, JoinDesc(st.current_desc_lines))]
       ELSE st
  ELSE st

\* "Final capture after loop" (lines 119-127)
FinalCaptured(st) ==
  IF Truthy(st.current_key)
  THEN IF st.current_section = "args"
       THEN [st EXCEPT !.args = DictSet(@, st.current_key, JoinDesc(st.current_desc_lines))]
       ELSE IF st.current_section = "raises"
       THEN [st EXCEPT !.raises = DictSet(@, st.current_key, JoinDesc(st.current_desc_lines))]
       ELSE st
  ELSE IF st.current_section = "returns" /\ st.returns = <<>>
  THEN [st EXCEPT !.returns = JoinDesc(st.current_desc_lines)]
  ELSE st

\* the guard of line 17 as "docstring == ''": None passes it
IsAbsent_EmptyOnly(doc) == doc = <<>>

\* "not docstring" (line 17)
IsAbsent(doc) == ~Truthy(doc)

\* lines = docstring.strip().splitlines() (line 20)
DocLines(doc) == SplitLines(Strip(doc))

\* line 24 without its strip()
SummaryOf_NoStrip(doc_lines) == doc_lines[1]

\* summary = lines[0].strip() (line 24)
SummaryOf(doc_lines) == Strip(doc_lines[1])

\* the locals as lines 25-30 set them
StartState == LoopState(<<>>, <<>>, <<>>, "None", None, <<>>)

\* the loop of line 36 over lines instead of lines[1:]
FirstScanIndex_WholeList == 2 - 1

\* the position in lines of the first line the loop reads: lines[1:] (line 36)
FirstScanIndex == 2

RECURSIVE ScanFrom(_, _, _)
\* the state after the loop has run over doc_lines[i..]
ScanFrom(st, doc_lines, i) ==
  IF i > Len(doc_lines) THEN st
  ELSE ScanFrom(ScanStep(st, doc_lines[i]), doc_lines, i + 1)

\* parse_docstring(doc) as a function of its argument (lines 17-129)
ParseDocstring(doc) ==
  IF IsAbsent(doc) THEN EmptyResult
  ELSE IF DocLines(doc) = <<>> THEN EmptyResult
  ELSE LET st == FinalCaptured(ScanFrom(StartState, DocLines(doc), FirstScanIndex))
       IN [summary |-> SummaryOf(DocLines(doc)), args |-> st.args,
           returns |-> st.returns, raises |-> st.raises]

\* ----------------------------------------------------------------- inputs

\* the text whose lines are ls: "\n".join(ls)
MkDoc(ls) == JoinWith(ls, <<"\n">>)

\* the sequences of at most n members of pool
SeqsUpTo(pool, n) == UNION {[1..k -> pool] : k \in 0..n}

\* the largest number of lines that follow the first line of an input
MaxBody == 4

\* "Sum"
LnSum == <<"S","u","m">>

\* "Args:"
LnArgs == <<"A","r","g","s",":">>

\* "Raises:"
LnRaises == <<"R","a","i","s","e","s",":">>

\* "Returns:"
LnReturns == <<"R","e","t","u","r","n","s",":">>

\* "Notes:"
LnNotes == <<"N","o","t","e","s",":">>

\* "  x: a"
LnKeyX == <<" "," ","x",":"," ","a">>

\* "  x (int): b"
LnKeyXTyped == <<" "," ","x"," ","(","i","n","t",")",":"," ","b">>

\* "  pkg.E: c"
LnKeyErr == <<" "," ","p","k","g",".","E",":"," ","c">>

\* "    more"
LnCont == <<" "," "," "," ","m","o","r","e">>

\* "para"
LnPara == <<"p","a","r","a">>

\* "z: q"
LnBareKey == <<"z",":"," ","q">>

\* the lines that follow the first line of an input of Spec
LinePool ==
  {LnArgs, LnRaises, LnReturns, LnNotes, LnKeyXTyped, LnKeyErr, LnCont,
   LnBareKey}

\* the inputs of Spec: a summary line and at most MaxBody lines of LinePool
Inputs == {MkDoc(<<LnSum>> \o b) : b \in SeqsUpTo(LinePool, MaxBody)}

\* ------------------------------------------------------------ the program

VARIABLES
  docstring,           \* the argument of parse_docstring
  lines,               \* lines (line 20)
  idx,                 \* the 1-based position in lines of the line read next
  pc,                  \* "start", "scan" (in the loop) or "done" (returned)
  summary, args, returns, raises,
  current_section, current_key, current_desc_lines

vars == <<docstring, lines, idx, pc, summary, args, returns, raises,
          current_section, current_key, current_desc_lines>>

\* the locals the loop works on
Locals ==
  LoopState(args, returns, raises, current_section, current_key, current_desc_lines)

SetLocals(st) ==
  /\ args' = st.args
  /\ returns' = st.returns
  /\ raises' = st.raises
  /\ current_section' = st.current_section
  /\ current_key' = st.current_key
  /\ current_desc_lines' = st.current_desc_lines

\* the call parse_docstring(doc), before its first statement
InitWith(inputs) ==
  /\ docstring \in inputs
  /\ lines = <<>>
  /\ idx = 1
  /\ pc = "start"
  /\ summary = <<>>
  /\ args = <<>>
  /\ returns = <<>>
  /\ raises = <<>>
  /\ current_section = "None"
  /\ current_key = None
  /\ current_desc_lines = <<>>

Init == InitWith(Inputs)

\* lines 17-30: the two early returns, or the set-up of the loop
Begin ==
  /\ pc = "start"
  /\ IF IsAbsent(docstring) \/ DocLines(docstring) = <<>>
     THEN /\ pc' = "done"
          /\ summary' = EmptyResult.summary
          /\ args' = EmptyResult.args
          /\ returns' = EmptyResult.returns
          /\ raises' = EmptyResult.raises
          /\ UNCHANGED <<lines, idx, current_section, current_key, current_desc_lines>>
     ELSE /\ lines' = DocLines(docstring)
          /\ summary' = SummaryOf(DocLines(docstring))
          /\ SetLocals(StartState)
          /\ idx' = FirstScanIndex
          /\ pc' = "scan"
  /\ UNCHANGED docstring

\* one iteration of the for loop over lines[1:] (lines 36-115)
ScanLine ==
  /\ pc = "scan"
  /\ idx <= Len(lines)
  /\ SetLocals(ScanStep(Locals, lines[idx]))
  /\ idx' = idx + 1
  /\ UNCHANGED <<docstring, lines, pc, summary>>

\* the loop is over: final capture and return (lines 118-129)
FinalCapture ==
  /\ pc = "scan"
  /\ idx > Len(lines)
  /\ SetLocals(FinalCaptured(Locals))
  /\ pc' = "done"
  /\ UNCHANGED <<docstring, lines, idx, summary>>

Next == Begin \/ ScanLine \/ FinalCapture

Spec == Init /\ [][Next]_vars

\* the record parse_docstring returns
Result == [summary |-> summary, args |-> args, returns |-> returns, raises |-> raises]

\* ------------------------------------------------- character-level inputs

\* the longest input of SpecChars
MaxChars == 4

CharAlphabet == {" ", "\t", "\n", "\r", "a", ":"}

\* None and every text of at most MaxChars characters of CharAlphabet
CharInputs == {None} \cup SeqsUpTo(CharAlphabet, MaxChars)

InitChars == InitWith(CharInputs)

SpecChars == InitChars /\ [][Next]_vars

\* ----------------------------------------------------- first-line inputs

\* "Args: \t"
LnArgsPadded == <<"A","r","g","s",":"," ","\t">>

\* "raises ValueError"
LnRaisesBare == <<"r","a","i","s","e","s"," ","V","a","l","u","e","E","r","r","o","r">>

\* whitespace in front of the first line
LeadPool == {<<>>, <<"\n">>, <<" ", "\n", "\t", "\r", "\n", " ", " ">>}

\* first lines: a plain summary and lines that read like section headers
FirstPool == {LnSum, LnArgs, LnArgsPadded, LnRaisesBare, LnReturns}

FirstBodyPool == {LnKeyX, LnCont, LnKeyErr, LnPara, LnRaises}

FirstInputs ==
  {lead \o MkDoc(<<f>> \o b) :
     lead \in LeadPool, f \in FirstPool, b \in SeqsUpTo(FirstBodyPool, MaxBody)}

InitFirst == InitWith(FirstInputs)

SpecFirst == InitFirst /\ [][Next]_vars

\* ------------------------------------------------------------------ claims

\* the input is None, empty or made of whitespace only
Blank(doc) == doc = None \/ \A i \in 1..Len(doc) : doc[i] \in WhiteSpace

\* C1: for an input that is None, empty or made only of whitespace and blank
\* lines, parse_docstring returns summary "", args {}, returns "", raises {}.
C1_BlankGivesEmpty ==
  (pc = "done" /\ Blank(docstring)) =>
    (summary = <<>> /\ args = <<>> /\ returns = <<>> /\ raises = <<>>)

\* a whitespace-only input of several blank lines has been answered
C1_Witness ==
  /\ pc = "done"
  /\ docstring # None
  /\ Len(docstring) >= 3
  /\ Blank(docstring)
  /\ \E i \in 1..Len(docstring) : docstring[i] = "\n"
  /\ Result = [summary |-> <<>>, args |-> <<>>, returns |-> <<>>, raises |-> <<>>]

\* the first line of the text, trimmed, read off the characters of the text:
\* from its first non-whitespace character to the last non-whitespace
\* character in front of the next line break
FirstLineTrimmed(doc) ==
  LET ns == {i \in 1..Len(doc) : doc[i] \notin WhiteSpace}
      a == Least(ns)
      brks == {i \in a..Len(doc) : doc[i] \in {"\n", "\r", "\f"}}
      e == IF brks = {} THEN Len(doc) + 1 ELSE Least(brks)
  IN SubSeq(doc, a, Greatest({i \in ns : i < e}))

\* C2: for an input with a non-blank line the summary is the trimmed first
\* line of the trimmed text, whatever it reads; the first line opens no
\* section even when it reads like a header: until a header line is met
\* after it, the section state is None and nothing is captured.
C2_FirstLineIsSummary ==
  /\ (pc \in {"scan", "done"} /\ ~Blank(docstring)) =>
       summary = FirstLineTrimmed(docstring)
  /\ (pc = "scan" /\ idx = 2) => (current_section = "None" /\ current_key = None)
  /\ (pc \in {"scan", "done"} /\ ~Blank(docstring)
        /\ \A i \in 2..(idx - 1) : ~IsHeaderLine(lines[i])) =>
       /\ args = <<>> /\ raises = <<>> /\ returns = <<>>
       /\ current_section = "None" /\ current_key = None
       /\ current_desc_lines = <<>>

\* the first line reads "Args:" behind leading blank lines, a key-line and
\* its continuation follow it, and nothing of them is in the result
C2_Witness ==
  /\ pc = "done"
  /\ IsSpace(docstring[1])
  /\ Len(lines) >= 3
  /\ lines[1] = LnArgsPadded
  /\ summary = LnArgs
  /\ lines[2] = LnKeyX
  /\ lines[3] = LnCont
  /\ args = <<>>

\* C9: parsing the summary of any input as an input of its own gives that
\* summary back, with empty args, returns and raises.
C9_SummaryIdempotent ==
  pc = "done" =>
    ParseDocstring(summary) =
      [summary |-> summary, args |-> <<>>, returns |-> <<>>, raises |-> <<>>]

\* the summary is a first line that lost whitespace, of an input of two lines
C9_Witness ==
  /\ pc = "done"
  /\ Len(lines) >= 2
  /\ summary # <<>>
  /\ lines[1] # summary
  /\ ParseDocstring(summary).summary = summary

\* ------------------------------------------------ claims about the steps

\* the loop is about to read a line
Scanning == pc = "scan" /\ idx <= Len(lines)

\* the line the loop is about to read
CurLine == lines[idx]

\* the loop is over and the final capture is about to run
AtFinalCapture == pc = "scan" /\ idx > Len(lines)

\* the characters of an identifier of a key-line
IsIdentChar(c) == IsWordChar(c) \/ c = "."

\* k is the identifier the line starts with, behind its indentation
IsIdentifierOf(k, line) ==
  LET t == LStrip(line)
  IN /\ k # <<>>
     /\ \A i \in 1..Len(k) : IsIdentChar(k[i])
     /\ StartsWith(t, k)
     /\ Len(t) > Len(k) => ~IsIdentChar(t[Len(k) + 1])

\* C4: entries are committed only to the mapping of the section they were
\* opened in. A key is opened only by a line read in Args or Raises, of which
\* it is the identifier; while it is pending the section does not change; a
\* step that changes args commits the pending key, in section Args, and
\* leaves raises alone, and the other way round.
C4_KeysStayInTheirSection ==
  [][ /\ (current_key # None) => current_section \in {"args", "raises"}
      /\ (current_key' # None /\ current_key' # current_key) =>
           /\ Scanning
           /\ current_section \in {"args", "raises"}
           /\ current_section' = current_section
           /\ IsIdentifierOf(current_key', CurLine)
      /\ (current_key' # None /\ current_key' = current_key) =>
           current_section' = current_section
      /\ (args' # args) =>
           /\ current_section = "args" /\ current_key # None
           /\ DictKeys(args') = DictKeys(args) \cup {current_key}
           /\ raises' = raises
      /\ (raises' # raises) =>
           /\ current_section = "raises" /\ current_key # None
           /\ DictKeys(raises') = DictKeys(raises) \cup {current_key}
           /\ args' = args
    ]_vars

\* "x"
KeyNameX == <<"x">>

\* "pkg.E"
KeyNameErr == <<"p","k","g",".","E">>

\* an Args entry and a dotted Raises entry, each in its own mapping
C4_Witness ==
  /\ pc = "done"
  /\ DictKeys(args) = {KeyNameX}
  /\ DictKeys(raises) = {KeyNameErr}

\* the key-lines of LinePool, read by hand: name and description
KeyLineTexts == {LnKeyXTyped, LnKeyErr, LnBareKey}

KeyLineName(line) ==
  CASE line = LnKeyXTyped -> <<"x">>
    [] line = LnKeyErr -> KeyNameErr
    [] line = LnBareKey -> <<"z">>

KeyLineDesc(line) ==
  CASE line = LnKeyXTyped -> <<"b">>
    [] line = LnKeyErr -> <<"c">>
    [] line = LnBareKey -> <<"q">>

\* the description a pending entry is committed with
PendingDesc == JoinDesc(current_desc_lines)

\* the value of key k changes, or k is new, in the step from d to e
Rewritten(d, e, k) ==
  k \in DictKeys(e) /\ (k \in DictKeys(d) => DictGet(e, k) # DictGet(d, k))

\* C6: a key opened again takes the description of its last occurrence
\* alone. A key-line that opens an entry starts its description afresh with
\* its own text, whatever was pending; and a value written into args or
\* raises is the description of the pending entry, with nothing of the value
\* the key had before.
C6_LastOccurrenceWins ==
  [][ /\ (Scanning /\ current_section \in {"args", "raises"}
            /\ CurLine \in KeyLineTexts
            /\ (current_key = None \/ StartsWithSpace(CurLine))) =>
           /\ current_key' = KeyLineName(CurLine)
           /\ current_desc_lines' = <<KeyLineDesc(CurLine)>>
      /\ \A k \in DictKeys(args') :
           Rewritten(args, args', k) =>
             (k = current_key /\ DictGet(args', k) = PendingDesc)
      /\ \A k \in DictKeys(raises') :
           Rewritten(raises, raises', k) =>
             (k = current_key /\ DictGet(raises', k) = PendingDesc)
    ]_vars

\* "x" is described twice, first with a continuation line, and has the text
\* of the second key-line only
C6_Witness ==
  /\ pc = "done"
  /\ lines = <<LnSum, LnArgs, LnKeyXTyped, LnCont, LnKeyXTyped>>
  /\ args = << <<KeyNameX, <<"b">>>> >>

\* the line about to be read is no header, does not start with whitespace,
\* and an entry is open: a pending key in Args or Raises, or accumulated
\* lines in Returns
Deindented ==
  /\ Scanning
  /\ ~IsHeaderLine(CurLine)
  /\ CurLine # <<>> /\ CurLine[1] \notin WhiteSpace
  /\ \/ current_section \in {"args", "raises"} /\ current_key # None
     \/ current_section = "returns" /\ current_desc_lines # <<>>

\* C7: an unindented non-header line terminates the open entry, which is
\* committed with the description gathered so far; that line and the lines
\* after it, up to the next header, are captured nowhere.
C7_DeindentTerminates ==
  [][ /\ Deindented =>
           /\ current_section = "args" =>
                /\ args' = DictSet(args, current_key, PendingDesc)
                /\ UNCHANGED <<raises, returns>>
           /\ current_section = "raises" =>
                /\ raises' = DictSet(raises, current_key, PendingDesc)
                /\ UNCHANGED <<args, returns>>
           /\ current_section = "returns" =>
                /\ returns' = PendingDesc
                /\ UNCHANGED <<args, raises>>
           /\ current_key' = None
           /\ current_desc_lines' = <<>>
           /\ current_section' = "None"
      /\ (Scanning /\ current_section = "None" /\ ~IsHeaderLine(CurLine)) =>
           UNCHANGED <<args, returns, raises, current_section, current_key,
                       current_desc_lines>>
      /\ (AtFinalCapture /\ current_section = "None") =>
           UNCHANGED <<args, returns, raises>>
      /\ (pc = "scan") => summary' = summary
    ]_vars

\* "x" is committed at the unindented line, which is captured nowhere although
\* it reads like a key-line, and the indented line after it is not appended
C7_Witness ==
  /\ pc = "done"
  /\ lines = <<LnSum, LnArgs, LnKeyXTyped, LnBareKey, LnCont>>
  /\ args = << <<KeyNameX, <<"b">>>> >>
  /\ returns = <<>> /\ raises = <<>>

\* the lowercased trimmed line starts with one of the words of an Other header
ReadsAsOtherHeader(line) ==
  \E w \in { <<"a","t","t","r","i","b","u","t","e","s",":">>,
             <<"s","e","e"," ","a","l","s","o",":">>,
             <<"e","x","a","m","p","l","e",":">>,
             <<"e","x","a","m","p","l","e","s",":">>,
             <<"n","o","t","e","s",":">> } :
    StartsWith(Lower(Strip(line)), w)

\* the lowercased trimmed line is an Args, Returns or Raises header
ReadsAsCapturingHeader(line) ==
  LET t == Lower(Strip(line))
  IN \/ t \in { <<"a","r","g","s",":">>,
                <<"a","r","g","u","m","e","n","t","s",":">>,
                <<"p","a","r","a","m","e","t","e","r","s",":">>,
                <<"r","e","t","u","r","n","s",":">>,
                <<"y","i","e","l","d","s",":">> }
     \/ \E w \in { <<"r","a","i","s","e","s"," ">>,
                   <<"r","a","i","s","e","s",":">>,
                   <<"e","r","r","o","r","s",":">>,
                   <<"e","x","c","e","p","t","i","o","n","s",":">> } :
          StartsWith(t, w)

C10_SectionSurvivesDeindent ==
  [][ (Deindented /\ current_section \in {"args", "raises"}) =>
        current_section' = current_section ]_vars

\* C10, amended: the unindented non-header line that flushes a pending Args
\* or Raises key also ends the section (the section state becomes None), so
\* a later space-indented key-line with no header in between opens no entry
\* and is captured in neither mapping.
C10_DeindentEndsSection ==
  [][ /\ (Deindented /\ current_section \in {"args", "raises"}) =>
           (current_section' = "None" /\ current_key' = None)
      /\ (Scanning /\ current_section = "None" /\ CurLine \in KeyLineTexts) =>
           UNCHANGED <<args, raises, returns, current_section, current_key>>
    ]_vars

\* after the unindented line that closed "x", the key-line "pkg.E" is not
\* captured
C10_Witness ==
  /\ pc = "done"
  /\ lines = <<LnSum, LnArgs, LnKeyXTyped, LnBareKey, LnKeyErr>>
  /\ args = << <<KeyNameX, <<"b">>>> >>
  /\ raises = <<>>

\* ------------------------------------------------------- Returns sections

\* "Yields:"
LnYields == <<"Y","i","e","l","d","s",":">>

\* "  r one"
LnRetOne == <<" "," ","r"," ","o","n","e">>

\* "    r two"
LnRetTwo == <<" "," "," "," ","r"," ","t","w","o">>

ReturnsPool == {LnReturns, LnYields, LnRetOne, LnRetTwo, LnPara, LnArgs, LnKeyX}

ReturnsInputs == {MkDoc(<<LnSum>> \o b) : b \in SeqsUpTo(ReturnsPool, MaxBody)}

InitReturns == InitWith(ReturnsInputs)

SpecReturns == InitReturns /\ [][Next]_vars

\* the positions after the first line of the lines that read "returns:" or
\* "yields:" in any case, trimmed
ReturnsHeaderPositions ==
  {i \in 2..Len(lines) :
     Lower(Strip(lines[i])) \in { <<"r","e","t","u","r","n","s",":">>,
                                  <<"y","i","e","l","d","s",":">> }}

\* the last line of the section whose header is line h: the line in front of
\* the next header, or the last line of the input
SectionEnd(h) ==
  LET later == {i \in (h + 1)..Len(lines) : IsHeaderLine(lines[i])}
  IN IF later = {} THEN Len(lines) ELSE Least(later) - 1

\* the trimmed lines h+1..e, joined by single spaces
JoinedTrimmed(h, e) ==
  JoinWith([i \in 1..(e - h) |-> Strip(lines[h + i])], <<" ">>)

\* C5: with exactly one Returns/Yields section, made of one or more
\* space-indented non-header lines, returns is the trimmed lines joined by
\* single spaces; with no Returns/Yields header line, returns is "".
C5_ReturnsOfOneSection ==
  pc = "done" =>
    /\ ReturnsHeaderPositions = {} => returns = <<>>
    /\ \A h \in ReturnsHeaderPositions :
         (/\ ReturnsHeaderPositions = {h}
          /\ SectionEnd(h) > h
          /\ \A i \in (h + 1)..SectionEnd(h) : StartsWithSpace(lines[i])) =>
           returns = JoinedTrimmed(h, SectionEnd(h))

\* "r one r two"
TxRetBoth == <<"r"," ","o","n","e"," ","r"," ","t","w","o">>

\* a Returns section of two lines at the end of the input
C5_Witness ==
  /\ pc = "done"
  /\ lines = <<LnSum, LnArgs, LnReturns, LnRetOne, LnRetTwo>>
  /\ returns = TxRetBoth

\* ---------------------------------------------------------- Args sections

\* "  x: a b"
LnArgX == <<" "," ","x",":"," ","a"," ","b">>

\* "  y (int): c"
LnArgYTyped == <<" "," ","y"," ","(","i","n","t",")",":"," ","c">>

\* "  z:"
LnArgZEmpty == <<" "," ","z",":">>

\* "  notes: n"
LnArgNotes == <<" "," ","n","o","t","e","s",":"," ","n">>

\* "      and  so on"
LnContDeep == <<" "," "," "," "," "," ","a","n","d"," "," ","s","o"," ","o","n">>

\* the key-lines of ArgsPool
ArgKeyLines == {LnArgX, LnArgYTyped, LnArgZEmpty, LnArgNotes}

\* the key-lines of ArgsPool that no header word starts
PlainArgKeyLines == {LnArgX, LnArgYTyped, LnArgZEmpty}

\* the continuation lines of ArgsPool
ArgContLines == {LnCont, LnContDeep}

ArgsPool == ArgKeyLines \cup ArgContLines \cup {LnReturns}

\* "Sum", "Args:" and at most MaxBody lines of ArgsPool
ArgsInputs == {MkDoc(<<LnSum, LnArgs>> \o b) : b \in SeqsUpTo(ArgsPool, MaxBody)}

InitArgs == InitWith(ArgsInputs)

SpecArgs == InitArgs /\ [][Next]_vars

\* name and description of each key-line, and the text of each continuation
\* line, read by hand
ArgKeyName(line) ==
  CASE line = LnArgX -> <<"x">>
    [] line = LnArgYTyped -> <<"y">>
    [] line = LnArgZEmpty -> <<"z">>
    [] line = LnArgNotes -> <<"n","o","t","e","s">>

ArgKeyDesc(line) ==
  CASE line = LnArgX -> <<"a"," ","b">>
    [] line = LnArgYTyped -> <<"c">>
    [] line = LnArgZEmpty -> <<>>
    [] line = LnArgNotes -> <<"n">>

ArgContText(line) ==
  CASE line = LnCont -> <<"m","o","r","e">>
    [] line = LnContDeep -> <<"a","n","d"," "," ","s","o"," ","o","n">>

\* the lines of the Args section that line 2 opens: up to the "Returns:"
\* line, or to the end of the input
ArgsSectionLines ==
  LET ends == {i \in 3..Len(lines) : lines[i] = LnReturns}
  IN SubSeq(lines, 3, IF ends = {} THEN Len(lines) ELSE Least(ends) - 1)

\* the section is made of key-lines of keys, with distinct names, each
\* followed by continuation lines
ArgsSectionOf(keys) ==
  LET sec == ArgsSectionLines
  IN /\ Len(lines) >= 2 /\ lines[2] = LnArgs
     /\ \A i \in 1..Len(sec) : sec[i] \in keys \cup ArgContLines
     /\ sec # <<>> => sec[1] \in keys
     /\ \A i, j \in 1..Len(sec) :
          (sec[i] \in keys /\ sec[j] \in keys /\ i # j) =>
            ArgKeyName(sec[i]) # ArgKeyName(sec[j])

RECURSIVE ExpectedArgs(_, _)
\* the mapping the claim gives for the section lines sec, acc being the
\* items of the lines in front of them: a key-line adds its name with its
\* description, a continuation line is put behind the last description with
\* one space (with none when that description is empty)
ExpectedArgs(sec, acc) ==
  IF sec = <<>> THEN acc
  ELSE IF Head(sec) \in ArgKeyLines
  THEN ExpectedArgs(Tail(sec),
                    Append(acc, <<ArgKeyName(Head(sec)), ArgKeyDesc(Head(sec))>>))
  ELSE LET last == acc[Len(acc)]
           text == IF last[2] = <<>> THEN ArgContText(Head(sec))
                   ELSE last[2] \o <<" ">> \o ArgContText(Head(sec))
       IN ExpectedArgs(Tail(sec),
                       [acc EXCEPT ![Len(acc)] = <<last[1], text>>])

C11_EndFlushesReturns ==
  [][ (AtFinalCapture /\ current_section = "returns"
         /\ current_desc_lines # <<>>) =>
        returns' = PendingDesc
    ]_vars

\* "r one"
TxRetOne == <<"r"," ","o","n","e">>

\* the input ends in a Yields section holding "r two", behind a Returns
\* section that committed "r one", and the result has "r one"
C11_Witness ==
  /\ pc = "done"
  /\ lines = <<LnSum, LnReturns, LnRetOne, LnYields, LnRetTwo>>
  /\ current_section = "returns"
  /\ current_desc_lines = << <<"r"," ","t","w","o">> >>
  /\ returns = TxRetOne

\* ---------------------------------------------------- tab-indented lines

\* a tab, then "more"
LnTabCont == <<"\t","m","o","r","e">>

\* a tab, then "y: b"
LnTabKey == <<"\t","y",":"," ","b">>

TabsPool ==
  {LnArgs, LnRaises, LnReturns, LnKeyX, LnRetOne, LnTabCont, LnTabKey}

TabsInputs == {MkDoc(<<LnSum>> \o b) : b \in SeqsUpTo(TabsPool, MaxBody)}

InitTabs == InitWith(TabsInputs)

SpecTabs == InitTabs /\ [][Next]_vars

\* the line about to be read starts with a tab; its text behind the tab
TabIndented == Scanning /\ CurLine \in {LnTabCont, LnTabKey}

TabLineText ==
  IF CurLine = LnTabCont THEN <<"m","o","r","e">> ELSE <<"y",":"," ","b">>

\* C12: any leading whitespace is indentation. With a key pending in Args or
\* Raises, a line that starts with a tab is read like a space-indented one:
\* appended as a continuation when it does not match the key pattern, opening
\* a new key in the same section when it does, and never ending the entry as
\* a de-indentation; in Returns, behind accumulated lines, it is appended.
C12_TabIsIndentation ==
  [][ /\ (TabIndented /\ current_section \in {"args", "raises"}
            /\ current_key # None) =>
           /\ current_section' = current_section
           /\ CurLine = LnTabCont =>
                /\ current_key' = current_key
                /\ current_desc_lines' =
                     Append(current_desc_lines, TabLineText)
                /\ UNCHANGED <<args, raises>>
           /\ CurLine = LnTabKey =>
                /\ current_key' = <<"y">>
                /\ current_desc_lines' = << <<"b">> >>
      /\ (TabIndented /\ current_section = "returns"
            /\ current_desc_lines # <<>>) =>
           /\ current_section' = current_section
           /\ current_desc_lines' = Append(current_desc_lines, TabLineText)
           /\ returns' = returns
    ]_vars

\* the tab-indented line under the key-line of "x" ended the entry and the
\* section: "more" is not in the description
C12_Witness ==
  /\ pc = "done"
  /\ lines = <<LnSum, LnArgs, LnKeyX, LnTabCont>>
  /\ current_section = "None"
  /\ args = << <<KeyNameX, <<"a">>>> >>

\* ------------------------------------------------------------ blank lines

\* an empty line
LnEmpty == <<>>

\* a line of a space and a tab
LnBlank == <<" ","\t">>

BlankPool == {LnArgs, LnReturns, LnKeyX, LnCont, LnEmpty, LnBlank}

BlankInputs == {MkDoc(<<LnSum>> \o b) : b \in SeqsUpTo(BlankPool, MaxBody)}

InitBlank == InitWith(BlankInputs)

SpecBlank == InitBlank /\ [][Next]_vars

\* doc with text put in behind its first off characters
InsertAt(doc, off, text) ==
  SubSeq(doc, 1, off) \o text \o SubSeq(doc, off + 1, Len(doc))

\* the texts made of doc by one more line that reads b: in front of a line
\* of doc, or behind its last line
WithLine(doc, b) ==
  {InsertAt(doc, off, b \o <<"\n">>) :
     off \in {0} \cup {i \in 1..Len(doc) : doc[i] = "\n"}}
  \cup {doc \o <<"\n">> \o b}

\* C13: blank lines are neutral. The text with one more empty or
\* whitespace-only line, at any position, has the record of the text
\* itself; and the loop's step at a blank line changes nothing: behind a
\* blank line the section, the pending key, the accumulated lines and the
\* three results are those of the scan of the lines in front of it.
C13_BlankLinesNeutral ==
  /\ pc = "done" =>
       \A b \in {LnEmpty, LnBlank} : \A d \in WithLine(docstring, b) :
         ParseDocstring(d) = Result
  /\ (pc = "scan" /\ idx > 2 /\ lines[idx - 1] \in {LnEmpty, LnBlank}) =>
       Locals = ScanFrom(StartState, SubSeq(lines, 1, idx - 2), 2)

\* a blank line stands between the key-line of "x" and its continuation,
\* which is in the description, with nothing for the blank line
C13_Witness ==
  /\ pc = "done"
  /\ lines = <<LnSum, LnArgs, LnKeyX, LnBlank, LnCont>>
  /\ args = << <<KeyNameX, <<"a"," ","m","o","r","e">>>> >>

\* ------------------------------------------- headers in unusual places

\* "    raises ValueError", indented like a continuation line
LnRaisesCont ==
  <<" "," "," "," ","r","a","i","s","e","s"," ",
    "V","a","l","u","e","E","r","r","o","r">>

\* "  Raises: ValueError: bad", which the key pattern matches
LnRaisesKey ==
  <<" "," ","R","a","i","s","e","s",":"," ",
    "V","a","l","u","e","E","r","r","o","r",":"," ","b","a","d">>

\* "  returns:", indented like a key-line
LnReturnsIn == <<" "," ","r","e","t","u","r","n","s",":">>

HeadersPool ==
  {LnArgs, LnKeyX, LnCont, LnRetOne, LnRaisesCont, LnRaisesKey, LnReturnsIn}

HeadersInputs ==
  {MkDoc(<<LnSum>> \o b) : b \in SeqsUpTo(HeadersPool, MaxBody)}

InitHeaders == InitWith(HeadersInputs)

SpecHeaders == InitHeaders /\ [][Next]_vars

\* the headers of HeadersPool, read by hand, and the section each opens
HeaderTexts == {LnArgs, LnRaisesCont, LnRaisesKey, LnReturnsIn}

HeaderKind(line) ==
  CASE line = LnArgs -> "args"
    [] line \in {LnRaisesCont, LnRaisesKey} -> "raises"
    [] line = LnReturnsIn -> "returns"

\* C14: a line after the first that reads as a header is consumed as a
\* header, whatever its indentation and the state it is met in: the pending
\* entry is flushed, the section is the header's, and its text opens no key
\* and is in no description and not in returns, also when it is indented
\* under a pending key or matches the key pattern.
C14_HeaderLinesAreHeaders ==
  [][ (Scanning /\ CurLine \in HeaderTexts) =>
        /\ current_section' = HeaderKind(CurLine)
        /\ current_key' = None
        /\ current_desc_lines' = <<>>
        /\ args' = IF current_section = "args" /\ current_key # None
                   THEN DictSet(args, current_key, PendingDesc) ELSE args
        /\ raises' = IF current_section = "raises" /\ current_key # None
                     THEN DictSet(raises, current_key, PendingDesc) ELSE raises
        /\ returns' \in {returns, PendingDesc}
        /\ (current_section = "returns" /\ current_desc_lines # <<>>) =>
             returns' = PendingDesc
    ]_vars

\* "raises ValueError", indented under the key-line of "x", closed the entry
\* and opened Raises; "Raises: ValueError: bad" behind it opened no key
\* "Raises" and is in no description
C14_Witness ==
  /\ pc = "done"
  /\ lines = <<LnSum, LnArgs, LnKeyX, LnRaisesCont, LnRaisesKey>>
  /\ args = << <<KeyNameX, <<"a">>>> >>
  /\ raises = <<>>
  /\ current_section = "raises"
  /\ current_key = None

\* ------------------------------------------------ lines that nearly are headers

\* "ARGS:"
LnArgsUp == <<"A","R","G","S",":">>

\* "Args: extra"
LnArgsExtra == <<"A","r","g","s",":"," ","e","x","t","r","a">>

\* "  Returns: text"
LnReturnsText ==
  <<" "," ","R","e","t","u","r","n","s",":"," ","t","e","x","t">>

\* "Raises: extra"
LnRaisesExtra == <<"R","a","i","s","e","s",":"," ","e","x","t","r","a">>

\* "NOTES: x"
LnNotesUp == <<"N","O","T","E","S",":"," ","x">>

NearPool ==
  {LnArgsUp, LnReturns, LnKeyX, LnArgsExtra, LnReturnsText, LnRaisesExtra,
   LnRaisesBare, LnNotesUp}

NearInputs == {MkDoc(<<LnSum>> \o b) : b \in SeqsUpTo(NearPool, MaxBody)}

InitNear == InitWith(NearInputs)

SpecNear == InitNear /\ [][Next]_vars

\* the lines of NearPool that read like an Args or a Returns header with text
\* behind it, and as key-lines, read by hand: name and description
NearHeaders == {LnArgsExtra, LnReturnsText}

NearName(line) ==
  IF line = LnArgsExtra THEN <<"A","r","g","s">>
  ELSE <<"R","e","t","u","r","n","s">>

NearDesc(line) ==
  IF line = LnArgsExtra THEN <<"e","x","t","r","a">>
  ELSE <<"t","e","x","t">>

\* the line about to be read is a header by prefix, or in capitals: the
\* section it opens
PrefixHeaderStep ==
  /\ CurLine \in {LnRaisesExtra, LnRaisesBare} => current_section' = "raises"
  /\ CurLine = LnNotesUp => current_section' = "other"
  /\ CurLine = LnArgsUp => current_section' = "args"

\* C15 as it was stated: "Args: extra" and "Returns: text" never change the
\* section and are read as content of the current section, as key-lines
\* inside Args and Raises; the headers by prefix change the section.
C15_NearHeaderKeepsSection ==
  [][ Scanning =>
        /\ CurLine \in NearHeaders =>
             /\ current_section' = current_section
             /\ current_section \in {"args", "raises"} =>
                  current_key' = NearName(CurLine)
        /\ PrefixHeaderStep
    ]_vars

\* C15: a header is recognised whatever its case, Args and Returns by the
\* whole line and Raises and Other by their first word. "Args: extra" and
\* "Returns: text" never open a section; they are content of the current
\* section: read as key-lines inside Args and Raises when they start with a
\* space or no key is pending, appended inside Returns on the same terms,
\* and, not starting with a space while an entry is open, ending that entry
\* and the section like every unindented line. "Raises: extra",
\* "raises ValueError" and "NOTES: x" change the section.
C15_NearHeaderIsContent ==
  [][ Scanning =>
        /\ CurLine \in NearHeaders =>
             LET indented == CurLine[1] = " "
                 open == \/ current_section \in {"args", "raises"}
                            /\ current_key # None
                         \/ current_section = "returns"
                            /\ current_desc_lines # <<>>
             IN /\ current_section' =
                     (IF open /\ ~indented THEN "None" ELSE current_section)
                /\ (current_section \in {"args", "raises"}
                      /\ (current_key = None \/ indented)) =>
                     /\ current_key' = NearName(CurLine)
                     /\ current_desc_lines' = <<NearDesc(CurLine)>>
                /\ (current_section = "returns"
                      /\ (current_desc_lines = <<>> \/ indented)) =>
                     /\ current_desc_lines' =
                          Append(current_desc_lines,
                                 NearName(CurLine) \o <<":", " ">>
                                   \o NearDesc(CurLine))
                     /\ returns' = returns
                /\ (open /\ ~indented) =>
                     /\ current_key' = None
                     /\ current_desc_lines' = <<>>
                /\ current_section \in {"None", "other"} =>
                     UNCHANGED <<args, returns, raises, current_key,
                                 current_desc_lines>>
        /\ PrefixHeaderStep
    ]_vars

\* "ARGS:" opened Args, "Returns: text" under the key-line of "x" became the
\* key "Returns", and "Args: extra", unindented, ended the section
C15_Witness ==
  /\ pc = "done"
  /\ lines = <<LnSum, LnArgsUp, LnKeyX, LnReturnsText, LnArgsExtra>>
  /\ args = << <<KeyNameX, <<"a">>>>,
               <<NearName(LnReturnsText), NearDesc(LnReturnsText)>> >>
  /\ current_section = "None"
  /\ returns = <<>>

\* ------------------------------------------------- key-lines of all shapes

\* "    note: see", indented like a continuation line
LnKeyDeep == <<" "," "," "," ","n","o","t","e",":"," ","s","e","e">>

\* "  x (int): value (see y): more"
LnKeyParens ==
  <<" "," ","x"," ","(","i","n","t",")",":"," ","v","a","l","u","e"," ",
    "(","s","e","e"," ","y",")",":"," ","m","o","r","e">>

KeysPool ==
  {LnArgs, LnRaises, LnKeyX, LnKeyErr, LnKeyDeep, LnKeyParens, LnCont}

KeysInputs == {MkDoc(<<LnSum>> \o b) : b \in SeqsUpTo(KeysPool, MaxBody)}

InitKeys == InitWith(KeysInputs)

SpecKeys == InitKeys /\ [][Next]_vars

\* the key-lines of KeysPool, each indented with spaces, and their names,
\* read by hand
IndentedKeyLines == {LnKeyX, LnKeyErr, LnKeyDeep, LnKeyParens}

IndentedKeyName(line) ==
  CASE line \in {LnKeyX, LnKeyParens} -> KeyNameX
    [] line = LnKeyErr -> KeyNameErr
    [] line = LnKeyDeep -> <<"n","o","t","e">>

\* C16: a key-line wins over a continuation. With a key pending in Args or
\* Raises, a space-indented line that matches the key pattern commits the
\* pending key with the description gathered so far and opens an entry under
\* its own name, with one description line; it is not appended to the
\* pending description.
C16_KeyLineWins ==
  [][ (Scanning /\ current_section \in {"args", "raises"}
         /\ current_key # None /\ CurLine \in IndentedKeyLines) =>
        /\ current_section' = current_section
        /\ current_key' = IndentedKeyName(CurLine)
        /\ Len(current_desc_lines') = 1
        /\ current_desc_lines' # Append(current_desc_lines, Strip(CurLine))
        /\ current_section = "args" =>
             /\ args' = DictSet(args, current_key, PendingDesc)
             /\ raises' = raises
        /\ current_section = "raises" =>
             /\ raises' = DictSet(raises, current_key, PendingDesc)
             /\ args' = args
    ]_vars

\* "    note: see" under the key-line of "x" and its continuation is an
\* entry of its own, and the description of "x" ends in front of it
C16_Witness ==
  /\ pc = "done"
  /\ lines = <<LnSum, LnArgs, LnKeyX, LnCont, LnKeyDeep>>
  /\ args = << <<KeyNameX, <<"a"," ","m","o","r","e">>>>,
               <<IndentedKeyName(LnKeyDeep), <<"s","e","e">>>> >>

C18_OnePendingEntry ==
  /\ current_key # None =>
       /\ current_section \in {"args", "raises"}
       /\ current_desc_lines # <<>>
  /\ current_section = "returns" => current_key = None
  /\ current_section \in {"None", "other"} =>
       /\ current_key = None
       /\ current_desc_lines = <<>>
  /\ current_section \in {"None", "args", "raises", "returns", "other"}

\* the key "x" was pending in Args with its description, and the Returns
\* header behind it left no key and no line pending
C18_Witness ==
  /\ pc = "scan"
  /\ lines = <<LnSum, LnArgs, LnKeyXTyped, LnReturns, LnCont>>
  /\ idx = 5
  /\ args = << <<KeyNameX, <<"b">>>> >>
  /\ current_section = "returns"
  /\ current_key = None
  /\ current_desc_lines = <<>>

\* ------------------------------------------------- the committed returns

\* C19: a committed returns value is never erased: once returns is not
\* empty no step makes it empty, and a header met in section Returns with
\* nothing accumulated leaves returns as it is; so the returned record has
\* a returns text whenever a Returns or Yields section took a content line.
C19_ReturnsNeverErased ==
  [][ /\ returns # <<>> => returns' # <<>>
      /\ (Scanning /\ IsHeaderLine(CurLine) /\ current_section = "returns"
            /\ current_desc_lines = <<>>) =>
           returns' = returns
    ]_vars

\* a Returns section took "r one", and the Args header behind a second,
\* empty Returns section left nothing of it
C19_Witness ==
  /\ pc = "done"
  /\ lines = <<LnSum, LnReturns, LnRetOne, LnReturns, LnArgs>>
  /\ returns = <<>>

\* ------------------------------------------ the type in parentheses

\* "value (see y): more"
TxParensDesc ==
  <<"v","a","l","u","e"," ","(","s","e","e"," ","y",")",":"," ",
    "m","o","r","e">>

\* C20: the key-line "name (type): description" read in Args or Raises opens
\* the key name with the whole trimmed text behind the colon that follows
\* the type in parentheses, also when that text has a ")" with a ":" behind
\* it: "x (int): value (see y): more" opens "x" with "value (see y): more".
C20_DescriptionFollowsType ==
  [][ (Scanning /\ current_section \in {"args", "raises"}
         /\ CurLine = LnKeyParens) =>
        /\ current_key' = KeyNameX
        /\ current_desc_lines' = <<TxParensDesc>>
    ]_vars

\* "x (int): value (see y): more" in Args gave "x" the text "more"
C20_Witness ==
  /\ pc = "done"
  /\ lines = <<LnSum, LnArgs, LnKeyParens>>
  /\ args = << <<KeyNameX, <<"m","o","r","e">>>> >>

====
